---- MODULE Spec2Model ----
(***************************************************************************)
(* AI Coder Pro: the per-file generation loop (CodeGenerator), the project *)
(* orchestrator, the file writer, the interactive run (AICoderPro.run) and  *)
(* the generate handlers of the service.                                   *)
(*                                                                         *)
(* A generated text is represented by what the program measures of it:     *)
(* len(code.splitlines()) and len(tokenizer.encode(code)).  A path is the  *)
(* sequence of its characters.                                             *)
(***************************************************************************)
EXTENDS Integers, Sequences, FiniteSets, TLC

VARIABLES
    strict_mode,    \* CodeGenerator.strict_mode
    file_structure, \* the manifest handed to generate_project (ordered paths)
    pc,             \* position in AICoderPro.run
    file_writer,    \* TRUE once self.file_writer holds the AdvancedFileWriter
    dir_exists,     \* the project directory exists on disk
    dir0,           \* the project directory existed before the run
    disk,           \* path -> content of the file under the project directory
    file_num,       \* generate_project: index of the entry being generated
    attempt,        \* generate_file: loop variable of range(1, 4)
    attempt_log,    \* backend responses of the current generate_file call
    requests,       \* every backend request issued so far (manifest indices)
    results,        \* generate_project: results, in insertion order
    written,        \* write_files: number of write_file calls begun
    exception,      \* the exception that ended the run, if any
    exit_code,      \* process exit status, -1 while running
    total_files,    \* argument of _calculate_limits
    limits,         \* result of _calculate_limits: <<max_tokens, max_lines>>
    mode            \* "cli": AICoderPro.run, "api": a generate handler of the service

vars == <<strict_mode, file_structure, pc, file_writer, dir_exists, dir0, disk,
          file_num, attempt, attempt_log, requests, results, written,
          exception, exit_code, total_files, limits, mode>>

----------------------------------------------------------------------------
(* Bounds *)

MaxFiles == 2
MaxFileCount == 60

----------------------------------------------------------------------------
(* Paths *)

Upper == <<"A","B","C","D","E","F","G","H","I","J","K","L","M",
           "N","O","P","Q","R","S","T","U","V","W","X","Y","Z">>
LowerOf == <<"a","b","c","d","e","f","g","h","i","j","k","l","m",
             "n","o","p","q","r","s","t","u","v","w","x","y","z">>

\* str.lower(), character by character
lower(s) ==
    [k \in 1..Len(s) |->
        IF \E u \in 1..26 : Upper[u] = s[k]
        THEN LowerOf[CHOOSE u \in 1..26 : Upper[u] = s[k]]
        ELSE s[k]]

\* sub in s
Contains(s, sub) ==
    \E k \in 1..(Len(s) - Len(sub) + 1) : SubSeq(s, k, k + Len(sub) - 1) = sub

\* s.endswith(suf)
EndsWith(s, suf) ==
    /\ Len(s) >= Len(suf)
    /\ SubSeq(s, Len(s) - Len(suf) + 1, Len(s)) = suf

_is_ui_file(file_path) ==
    \/ Contains(lower(file_path), <<"u","i">>)
    \/ Contains(lower(file_path), <<"s","c","r","e","e","n">>)
    \/ Contains(lower(file_path), <<"w","i","n","d","o","w">>)
    \/ \E suf \in { <<".","h","t","m","l">>, <<".","u","i">>,
                    <<".","x","m","l">>, <<".","c","s","s">> } :
          EndsWith(file_path, suf)

MainPy == <<"m","a","i","n",".","p","y">>
GuiPy  == <<"G","U","I",".","p","y">>
AppCss == <<"a","p","p",".","c","s","s">>

PathSet == {MainPy, GuiPy, AppCss}

\* dicts with unique keys, in insertion order
Manifests ==
    UNION { { m \in [1..n -> PathSet] : \A a, b \in 1..n : a # b => m[a] # m[b] }
            : n \in 1..MaxFiles }

----------------------------------------------------------------------------
(* Contents *)

Text(l, t)  == [kind |-> "text", lines |-> l, tokens |-> t]
BackendFail == [kind |-> "error", lines |-> 0, tokens |-> 0]
Absent      == [kind |-> "absent", lines |-> 0, tokens |-> 0]
OldContent  == [kind |-> "old", lines |-> 0, tokens |-> 0]
Truncated   == [kind |-> "truncated", lines |-> 0, tokens |-> 0]

\* what response.choices[0].message.content can measure to
Contents ==
    { Text(0, 0), Text(19, 300), Text(20, 299), Text(20, 300),
      Text(499, 2000), Text(500, 1999), Text(500, 2000),
      Text(44981, 2000), Text(45001, 2000) }

\* the outcomes of client.chat.completions.create
Responses == Contents \cup {BackendFail}

NoException == [type |-> "none", path |-> <<>>]

\* an exception reaches "except Exception": run prints it and exits with
\* status 1, a handler of the service turns it into HTTPException(500)
ExceptionCaught ==
    IF mode = "cli"
    THEN pc' = "exited" /\ exit_code' = 1
    ELSE pc' = "http_500" /\ UNCHANGED exit_code

----------------------------------------------------------------------------
(* CodeGenerator *)

self_max_lines == 50000

Min(a, b) == IF a < b THEN a ELSE b

\* faulty variant: the per-file cap is not applied
_calculate_limits_uncapped(file_count) ==
    <<32000, self_max_lines \div file_count>>

\* returns <<max_tokens, max_lines_per_file>>
_calculate_limits(file_count) ==
    <<32000, Min(5000, self_max_lines \div file_count)>>

min_lines(file_path)  == IF _is_ui_file(file_path) THEN 500 ELSE 20
min_tokens(file_path) == IF _is_ui_file(file_path) THEN 2000 ELSE 300

\* faulty variant: the size check does not look at strict_mode
too_short_always(strict, line_count, token_count, minl, mint) ==
    line_count < minl \/ token_count < mint

\* faulty variant: the size check retries only when both measures are short
too_short_both(strict, line_count, token_count, minl, mint) ==
    strict /\ (line_count < minl /\ token_count < mint)

\* the condition of the retry branch of generate_file
too_short(strict, line_count, token_count, minl, mint) ==
    strict /\ (line_count < minl \/ token_count < mint)

\* faulty variant: range(1, 5)
LastAttemptOff == 3 + 1

\* the last value of range(1, 4)
LastAttempt == 3

\* faulty variant: the backend call is wrapped in try/except and retried
AttemptOutcomeCatches(strict, resp, minl, mint) ==
    IF resp.kind = "error" THEN "retry"
    ELSE IF too_short(strict, resp.lines, resp.tokens, minl, mint) THEN "retry"
    ELSE "return"

\* one iteration of the loop of generate_file, by the outcome of the request:
\* an exception of the backend call is not caught, a short text is retried,
\* anything else is returned
AttemptOutcome(strict, resp, minl, mint) ==
    IF resp.kind = "error" THEN "raise"
    ELSE IF too_short(strict, resp.lines, resp.tokens, minl, mint) THEN "retry"
    ELSE "return"

RECURSIVE TotalLines(_)
\* sum(len(c.splitlines()) for c in results.values())
TotalLines(res) ==
    IF res = <<>> THEN 0
    ELSE res[Len(res)].code.lines + TotalLines(SubSeq(res, 1, Len(res) - 1))

\* faulty variant: the break compares with the 50000 of max_lines
ExceedsCeilingAtLimit(total) == total > self_max_lines

\* faulty variant: the loop does not break
ExceedsCeilingIgnored(total) == FALSE

\* the condition of the break of generate_project
ExceedsCeiling(total) == total > 45000

\* the prologue of every iteration: the request is issued and answered
IssueRequest(resp) ==
    /\ pc = "generate"
    /\ requests' = Append(requests, file_num)
    /\ attempt_log' = IF attempt = 1 THEN <<resp>> ELSE Append(attempt_log, resp)
    /\ total_files' = Len(file_structure)
    /\ limits' = _calculate_limits(Len(file_structure))

Outcome(resp) ==
    AttemptOutcome(strict_mode, resp,
                   min_lines(file_structure[file_num]),
                   min_tokens(file_structure[file_num]))

\* faulty variant: generate_project catches the exception and skips the entry
SkipFailedFile(exc) ==
    /\ exception' = exc
    /\ IF file_num = Len(file_structure)
       THEN pc' = "write" /\ UNCHANGED <<file_num, attempt>>
       ELSE pc' = "generate" /\ file_num' = file_num + 1 /\ attempt' = 1
    /\ UNCHANGED <<results, written, disk, dir_exists, exit_code>>

\* an exception leaves generate_file: generate_project does not catch it and
\* the caller's "except Exception" takes it
GenerateFileRaises(exc) ==
    /\ exception' = exc
    /\ ExceptionCaught
    /\ UNCHANGED <<results, file_num, attempt, written, disk, dir_exists>>

\* faulty variant: each content is written to disk as soon as it is stored
StoreResultWrites(code) ==
    LET new == Append(results, [path |-> file_structure[file_num], code |-> code])
    IN  /\ results' = new
        /\ disk' = [disk EXCEPT ![file_structure[file_num]] = code]
        /\ IF ExceedsCeiling(TotalLines(new)) \/ file_num = Len(file_structure)
           THEN pc' = "write" /\ UNCHANGED <<file_num, attempt>>
           ELSE pc' = "generate" /\ file_num' = file_num + 1 /\ attempt' = 1
        /\ UNCHANGED <<exception, exit_code, written, dir_exists>>

\* generate_file returns code: generate_project stores it, sums the lines and
\* either breaks, goes to the next entry or, after the last one, returns
StoreResult(code) ==
    LET new == Append(results, [path |-> file_structure[file_num], code |-> code])
    IN  /\ results' = new
        /\ IF ExceedsCeiling(TotalLines(new)) \/ file_num = Len(file_structure)
           THEN pc' = "write" /\ UNCHANGED <<file_num, attempt>>
           ELSE pc' = "generate" /\ file_num' = file_num + 1 /\ attempt' = 1
        /\ UNCHANGED <<exception, exit_code, written, disk, dir_exists>>

GenerateAccepted ==
    /\ \E resp \in Responses :
          /\ IssueRequest(resp)
          /\ Outcome(resp) = "return"
          /\ StoreResult(resp)
    /\ UNCHANGED <<mode, strict_mode, file_structure, file_writer, dir0>>

GenerateRejected ==
    /\ \E resp \in Responses :
          /\ IssueRequest(resp)
          /\ Outcome(resp) = "retry"
          /\ attempt < LastAttempt
    /\ attempt' = attempt + 1
    /\ UNCHANGED <<mode, strict_mode, file_structure, pc, file_writer, dir_exists, dir0,
                   disk, file_num, results, written, exception, exit_code>>

GenerateExhausted ==
    /\ \E resp \in Responses :
          /\ IssueRequest(resp)
          /\ Outcome(resp) = "retry"
          /\ attempt >= LastAttempt
    /\ GenerateFileRaises([type |-> "ValueError", path |-> file_structure[file_num]])
    /\ UNCHANGED <<mode, strict_mode, file_structure, file_writer, dir0>>

GenerateBackendError ==
    /\ \E resp \in Responses :
          /\ IssueRequest(resp)
          /\ Outcome(resp) = "raise"
    /\ GenerateFileRaises([type |-> "BackendError", path |-> <<>>])
    /\ UNCHANGED <<mode, strict_mode, file_structure, file_writer, dir0>>

----------------------------------------------------------------------------
(* AdvancedFileWriter *)

\* write_file succeeds: parents made, file opened with 'w' and written
WriteFileOk ==
    /\ pc = "write"
    /\ written < Len(results)
    /\ disk' = [disk EXCEPT ![results[written + 1].path] = results[written + 1].code]
    /\ written' = written + 1
    /\ UNCHANGED <<mode, strict_mode, file_structure, pc, file_writer, dir_exists, dir0,
                   file_num, attempt, attempt_log, requests, results, exception,
                   exit_code, total_files, limits>>

\* faulty variant: write_files catches the exception and goes on
WriteFileFailsSwallowed ==
    /\ pc = "write"
    /\ written < Len(results)
    /\ written' = written + 1
    /\ UNCHANGED <<mode, strict_mode, file_structure, pc, file_writer, dir_exists, dir0,
                   disk, file_num, attempt, attempt_log, requests, results,
                   exception, exit_code, total_files, limits>>

\* write_file raises (mkdir, open or write): the file is untouched or was
\* truncated by open(..., 'w'); write_files does not catch, the caller does
WriteFileFails ==
    /\ pc = "write"
    /\ written < Len(results)
    /\ \E c \in {disk[results[written + 1].path], Truncated} :
          disk' = [disk EXCEPT ![results[written + 1].path] = c]
    /\ exception' = [type |-> "OSError", path |-> results[written + 1].path]
    /\ ExceptionCaught
    /\ UNCHANGED <<mode, strict_mode, file_structure, file_writer, dir_exists, dir0,
                   file_num, attempt, attempt_log, requests, results, written,
                   total_files, limits>>

\* the loop of write_files is over
WriteFilesReturns ==
    /\ pc = "write"
    /\ written = Len(results)
    /\ pc' = IF mode = "cli" THEN "post" ELSE "http_200"
    /\ UNCHANGED <<mode, strict_mode, file_structure, file_writer, dir_exists, dir0, disk,
                   file_num, attempt, attempt_log, requests, results, written,
                   exception, exit_code, total_files, limits>>

----------------------------------------------------------------------------
(* AICoderPro.run *)

\* _setup_environment: sys.exit(1) without the key or the projects directory
SetupEnvironment ==
    /\ pc = "setup"
    /\ \/ /\ pc' = IF mode = "cli" THEN "input" ELSE "construct"
          /\ UNCHANGED <<exception, exit_code>>
       \/ /\ pc' = "exited"
          /\ exit_code' = 1
          /\ exception' = [type |-> "SystemExit", path |-> <<>>]
    /\ UNCHANGED <<mode, strict_mode, file_structure, file_writer, dir_exists, dir0, disk,
                   file_num, attempt, attempt_log, requests, results, written,
                   total_files, limits>>

GetUserInput ==
    /\ pc = "input"
    /\ pc' = "construct"
    /\ UNCHANGED <<mode, strict_mode, file_structure, file_writer, dir_exists, dir0, disk,
                   file_num, attempt, attempt_log, requests, results, written,
                   exception, exit_code, total_files, limits>>

\* AdvancedFileWriter.__init__: base_path.mkdir(parents=True, exist_ok=True)
ConstructWriter ==
    /\ pc = "construct"
    /\ \/ /\ dir_exists' = TRUE
          /\ pc' = "assign"
          /\ UNCHANGED <<exception, exit_code>>
       \/ /\ ~dir_exists
          /\ exception' = [type |-> "OSError", path |-> <<>>]
          /\ ExceptionCaught
          /\ UNCHANGED dir_exists
    /\ UNCHANGED <<mode, strict_mode, file_structure, file_writer, dir0, disk,
                   file_num, attempt, attempt_log, requests, results, written,
                   total_files, limits>>

\* the constructor has returned: self.file_writer and self.project_path are
\* assigned and the manifest is built
AssignWriter ==
    /\ pc = "assign"
    /\ file_writer' = TRUE
    /\ pc' = "generate"
    /\ UNCHANGED <<mode, strict_mode, file_structure, dir_exists, dir0, disk,
                   file_num, attempt, attempt_log, requests, results, written,
                   exception, exit_code, total_files, limits>>

PostGenerationActions ==
    /\ pc = "post"
    /\ pc' = "exited"
    /\ exit_code' = 0
    /\ UNCHANGED <<mode, strict_mode, file_structure, file_writer, dir_exists, dir0, disk,
                   file_num, attempt, attempt_log, requests, results, written,
                   exception, total_files, limits>>

\* "except KeyboardInterrupt": rmtree of the project path when a writer is
\* held, then sys.exit(1)
KeyboardInterrupt ==
    /\ mode = "cli"
    /\ pc \in {"setup", "input", "construct", "assign", "generate", "write", "post"}
    /\ exception' = [type |-> "KeyboardInterrupt", path |-> <<>>]
    /\ IF file_writer
       THEN dir_exists' = FALSE /\ disk' = [p \in PathSet |-> Absent]
       ELSE UNCHANGED <<dir_exists, disk>>
    /\ exit_code' = 1
    /\ pc' = "exited"
    /\ UNCHANGED <<mode, strict_mode, file_structure, file_writer, dir0,
                   file_num, attempt, attempt_log, requests, results, written,
                   total_files, limits>>

----------------------------------------------------------------------------

Disk0 == [p \in PathSet |-> IF dir0 THEN OldContent ELSE Absent]

Init ==
    /\ mode = "cli"
    /\ strict_mode \in BOOLEAN
    /\ file_structure \in Manifests
    /\ pc = "setup"
    /\ file_writer = FALSE
    /\ dir0 \in BOOLEAN
    /\ dir_exists = dir0
    /\ disk = [p \in PathSet |-> IF dir0 THEN OldContent ELSE Absent]
    /\ file_num = 1
    /\ attempt = 1
    /\ attempt_log = <<>>
    /\ requests = <<>>
    /\ results = <<>>
    /\ written = 0
    /\ exception = NoException
    /\ exit_code = -1
    /\ total_files = 0
    /\ limits = <<0, 0>>

Next ==
    \/ SetupEnvironment
    \/ GetUserInput
    \/ ConstructWriter
    \/ AssignWriter
    \/ GenerateAccepted
    \/ GenerateRejected
    \/ GenerateExhausted
    \/ GenerateBackendError
    \/ WriteFileOk
    \/ WriteFileFails
    \/ WriteFilesReturns
    \/ PostGenerationActions
    \/ KeyboardInterrupt

Spec == Init /\ [][Next]_vars

----------------------------------------------------------------------------
(* The service: generate_project, generate_simple_project and              *)
(* generate_advanced_project run the same steps without the prompts, the   *)
(* post-generation actions and the KeyboardInterrupt handler.              *)

InitService ==
    /\ mode = "api"
    /\ strict_mode \in BOOLEAN
    /\ file_structure \in Manifests
    /\ pc = "setup"
    /\ file_writer = FALSE
    /\ dir0 \in BOOLEAN
    /\ dir_exists = dir0
    /\ disk = [p \in PathSet |-> IF dir0 THEN OldContent ELSE Absent]
    /\ file_num = 1
    /\ attempt = 1
    /\ attempt_log = <<>>
    /\ requests = <<>>
    /\ results = <<>>
    /\ written = 0
    /\ exception = NoException
    /\ exit_code = -1
    /\ total_files = 0
    /\ limits = <<0, 0>>

InitAll == Init \/ InitService

SpecAll == InitAll /\ [][Next]_vars

----------------------------------------------------------------------------
(* _calculate_limits over file counts *)

InitLimits ==
    /\ mode = "cli"
    /\ total_files \in 1..MaxFileCount
    /\ pc = "limits"
    /\ limits = <<0, 0>>
    /\ strict_mode = FALSE
    /\ file_structure = <<>>
    /\ file_writer = FALSE
    /\ dir0 = FALSE
    /\ dir_exists = FALSE
    /\ disk = [p \in PathSet |-> Absent]
    /\ file_num = 1
    /\ attempt = 1
    /\ attempt_log = <<>>
    /\ requests = <<>>
    /\ results = <<>>
    /\ written = 0
    /\ exception = NoException
    /\ exit_code = -1

CalculateLimits ==
    /\ pc = "limits"
    /\ limits' = _calculate_limits(total_files)
    /\ pc' = "limits_done"
    /\ UNCHANGED <<mode, strict_mode, file_structure, file_writer, dir_exists, dir0, disk,
                   file_num, attempt, attempt_log, requests, results, written,
                   exception, exit_code, total_files>>

NextLimits == CalculateLimits

SpecLimits == InitLimits /\ [][NextLimits]_vars

----------------------------------------------------------------------------
(* Properties *)

\* number of backend requests issued for manifest entry k
ReqCount(k) == Len(SelectSeq(requests, LAMBDA x : x = k))

\* the manifest entry the current attempt_log belongs to
LogFile == requests[Len(requests)]
LogPath == file_structure[LogFile]

\* the paths of PathSet classified as presentation files
UiPaths == {p \in PathSet : _is_ui_file(p)}

\* the minimums of a path: <<lines, tokens>>
Minimums(path) == IF path \in UiPaths THEN <<500, 2000>> ELSE <<20, 300>>

Undersized(c, path) ==
    c.kind = "text" /\ (c.lines < Minimums(path)[1] \/ c.tokens < Minimums(path)[2])
Adequate(c, path) ==
    c.kind = "text" /\ c.lines >= Minimums(path)[1] /\ c.tokens >= Minimums(path)[2]

\* C1: in strict mode no file gets more than 3 requests; three undersized
\* contents in a row end in the size error that carries the file's path; two
\* undersized contents followed by an adequate one make generate_file return
\* the third content after exactly 3 requests.
C1_StrictThreeAttempts ==
    (pc \notin {"limits", "limits_done"} /\ strict_mode) =>
        /\ \A k \in 1..Len(file_structure) : ReqCount(k) <= 3
        /\ Len(attempt_log) <= 3
        /\ (/\ Len(attempt_log) = 3
            /\ \A a \in 1..3 : Undersized(attempt_log[a], LogPath))
           => exception = [type |-> "ValueError", path |-> LogPath]
        /\ (/\ Len(attempt_log) >= 3
            /\ Undersized(attempt_log[1], LogPath)
            /\ Undersized(attempt_log[2], LogPath)
            /\ Adequate(attempt_log[3], LogPath))
           => /\ Len(results) >= LogFile
              /\ results[LogFile] = [path |-> LogPath, code |-> attempt_log[3]]
              /\ ReqCount(LogFile) = 3
              /\ exception.type # "ValueError"

C1_WitnessThirdAccepted ==
    /\ strict_mode
    /\ Len(attempt_log) = 3
    /\ Undersized(attempt_log[1], LogPath)
    /\ Undersized(attempt_log[2], LogPath)
    /\ Adequate(attempt_log[3], LogPath)
    /\ Len(results) = LogFile

\* C2: with strict mode off the first response of a file is accepted whatever
\* it measures: one request per generated file, the stored content is that
\* first response, and the size error is never raised.
C2_NonStrictFirstAccepted ==
    (pc \notin {"limits", "limits_done"} /\ ~strict_mode) =>
        /\ \A k \in 1..Len(file_structure) : ReqCount(k) <= 1
        /\ \A k \in 1..Len(results) : ReqCount(k) = 1
        /\ exception.type # "ValueError"
        /\ (requests # <<>> /\ attempt_log[1].kind = "text")
           => /\ Len(attempt_log) = 1
              /\ Len(results) >= LogFile
              /\ results[LogFile].code = attempt_log[1]

C2_WitnessEmptyAccepted ==
    /\ ~strict_mode
    /\ Len(results) = 2
    /\ results[1].code = Text(0, 0)
    /\ results[2].code = Text(19, 300)
    /\ results[1].path \in UiPaths

\* C3 (as stated): the lines held in results never sum to more than 45000.
C3_TotalNeverExceedsCeiling ==
    TotalLines(results) <= 45000

\* C3 (amended): the contents stored before the most recent one never sum to
\* more than 45000 lines, and once the sum of all of them does, generate_project
\* has stopped generating.
C3_CeilingExceededOnlyByLast ==
    results # <<>> =>
        /\ TotalLines(SubSeq(results, 1, Len(results) - 1)) <= 45000
        /\ TotalLines(results) > 45000 => pc # "generate"

C3_WitnessSumExceeds ==
    /\ Len(results) = 2
    /\ results[1].code.lines <= 45000
    /\ results[2].code.lines <= 45000
    /\ TotalLines(results) > 45000

\* C4: entries are generated in manifest order; once the running total exceeds
\* the ceiling no request is issued for a later entry and generate_project
\* returns without error a results map whose keys are a prefix of the manifest.
C4_StopsAtCeilingInOrder ==
    /\ \A j \in 1..Len(results) :
          /\ j <= Len(file_structure)
          /\ results[j].path = file_structure[j]
    /\ \A j \in 1..Len(requests) :
          /\ requests[j] <= Len(results) + 1
          /\ j > 1 => requests[j - 1] <= requests[j]
    /\ \A j \in 1..Len(results) :
          TotalLines(SubSeq(results, 1, j)) > 45000
          => /\ Len(results) = j
             /\ \A r \in 1..Len(requests) : requests[r] <= j
             /\ pc \in {"write", "post", "exited"}
             /\ exception.type \notin {"ValueError", "BackendError"}

C4_WitnessPartialReturned ==
    /\ pc = "post"
    /\ Len(results) < Len(file_structure)
    /\ written = Len(results)
    /\ TotalLines(results) > 45000

\* C5 (as stated): a file fails only after its 3 slots are consumed, a backend
\* error being one consumed slot.
C5_ErrorConsumesSlot ==
    exception.type \in {"ValueError", "BackendError"} => ReqCount(LogFile) = 3

\* C5 (amended): a backend error at attempt k is not caught by the loop: it is
\* the last request of the file, which fails at once after exactly k requests.
C5_ErrorPropagatesAtOnce ==
    \A a \in 1..Len(attempt_log) :
        attempt_log[a].kind = "error"
        => /\ a = Len(attempt_log)
           /\ ReqCount(LogFile) = a
           /\ exception = [type |-> "BackendError", path |-> <<>>]
           /\ pc = "exited"
           /\ exit_code = 1
           /\ Len(results) = LogFile - 1

C5_WitnessErrorOnSecond ==
    /\ Len(attempt_log) = 2
    /\ attempt_log[1].kind = "text"
    /\ attempt_log[2].kind = "error"
    /\ exception.type = "BackendError"

\* C6: when generate_file fails, the run ends with the failure: exit status 1,
\* no request for a later entry, and nothing is written although earlier
\* entries were accepted.
C6_FailureAbortsProject ==
    exception.type \in {"ValueError", "BackendError"}
    => /\ pc = "exited"
       /\ exit_code = 1
       /\ \A r \in 1..Len(requests) : requests[r] <= LogFile
       /\ Len(results) = LogFile - 1
       /\ written = 0
       /\ disk = Disk0

C6_WitnessFailsAfterAccepted ==
    /\ exception.type = "ValueError"
    /\ Len(results) = 1
    /\ LogFile = 2

\* C7: in strict mode every stored content has at least 500 lines and 2000
\* tokens when its path is a presentation file, at least 20 lines and 300
\* tokens otherwise.
C7_StrictMinimums ==
    strict_mode =>
        \A j \in 1..Len(results) :
            IF results[j].path \in UiPaths
            THEN results[j].code.lines >= 500 /\ results[j].code.tokens >= 2000
            ELSE results[j].code.lines >= 20 /\ results[j].code.tokens >= 300

C7_WitnessBothKinds ==
    /\ strict_mode
    /\ Len(results) = 2
    /\ results[1].path \in UiPaths
    /\ results[2].path \notin UiPaths
    /\ results[2].code = Text(20, 300)

\* C8: for every file count n >= 1 the limits are 32000 tokens and
\* min(5000, 50000 div n) lines.
C8_Limits ==
    pc = "limits_done" =>
        /\ limits[1] = 32000
        /\ limits[2] <= 5000
        /\ limits[2] <= 50000 \div total_files
        /\ limits[2] = 5000 \/ limits[2] = 50000 \div total_files

C8_WitnessBelowCap ==
    /\ pc = "limits_done"
    /\ total_files >= 1
    /\ limits[2] < 5000

\* C9: write_files writes in mapping order and overwrites; when the write of
\* entry k fails, entries before k hold their new content, entries after k are
\* not written, and the failure ends the run.
C9_WriteFailureLeavesPrefix ==
    exception.type # "KeyboardInterrupt" =>
        /\ \A j \in 1..written : disk[results[j].path] = results[j].code
        /\ \A j \in (written + 2)..Len(results) :
              disk[results[j].path] = Disk0[results[j].path]
        /\ (exception.type = "OSError" /\ exception.path # <<>>)
           => /\ written < Len(results)
              /\ exception.path = results[written + 1].path
              /\ pc = "exited"
              /\ exit_code = 1
        /\ ~(exception.type = "OSError" /\ exception.path # <<>>)
           => \A j \in (written + 1)..Len(results) :
                 disk[results[j].path] = Disk0[results[j].path]

C9_WitnessSecondFails ==
    /\ exception.type = "OSError"
    /\ Len(results) = 2
    /\ written = 1
    /\ exception.path = results[2].path
    /\ dir0
    /\ disk[results[1].path] = results[1].code

\* C10: an interrupt at any step of the interactive run ends with a non-zero
\* exit status and without the project directory this run made or wrote to.
C10_InterruptLeavesNoDirectory ==
    exception.type = "KeyboardInterrupt"
    => /\ exit_code = 1
       /\ dir_exists => (dir0 /\ disk = Disk0)

\* a file of this run is on disk, or a write_file call was completed
WrittenAny ==
    \/ written > 0
    \/ \E p \in PathSet : disk[p].kind \in {"text", "truncated"}

\* C11: in the interactive run and in the generate handlers, nothing is
\* written before generate_project has returned (no request follows a write),
\* and when generation raises, no generated file is on disk while the project
\* directory made by the writer's constructor exists (empty when it is new).
C11_WriteOnlyAfterGeneration ==
    /\ pc \in {"setup", "input", "construct", "assign", "generate"}
       => ~WrittenAny /\ disk = Disk0
    /\ WrittenAny
       => /\ pc \in {"write", "post", "exited", "http_200", "http_500"}
          /\ results # <<>>
          /\ Len(results) = Len(file_structure) \/ TotalLines(results) > 45000
          /\ \A r \in 1..Len(requests) : requests[r] <= Len(results)
          /\ ReqCount(Len(results)) >= 1
          /\ exception.type \notin {"ValueError", "BackendError"}
    /\ exception.type \in {"ValueError", "BackendError"}
       => /\ ~WrittenAny
          /\ disk = Disk0
          /\ dir_exists
          /\ file_writer
          /\ ~dir0 => \A p \in PathSet : disk[p] = Absent
          /\ pc = IF mode = "cli" THEN "exited" ELSE "http_500"

C11_WitnessServiceRaises ==
    /\ mode = "api"
    /\ exception.type = "ValueError"
    /\ Len(results) = 1
    /\ ~dir0
    /\ dir_exists
    /\ pc = "http_500"

====
